---- MODULE Spec2Model ----
(***************************************************************************)
(* Display-list state-caching encoder of EVE_CoDl.h.                       *)
(*                                                                         *)
(* Every EVE_CoDl_* function is an operator from a host context h (the     *)
(* fields of EVE_HalContext the header touches, plus dl, the words the     *)
(* call has handed to EVE_CoCmd_dl so far) to the host context after the   *)
(* call.  The build switches EVE_DL_OPTIMIZE, EVE_DL_CACHE_SCISSOR and     *)
(* EVE_DL_END_PRIMITIVE are the fields of cfg, fixed by Init.              *)
(***************************************************************************)
EXTENDS Integers, Sequences, FiniteSets, TLC

VARIABLES cfg, phost, call, nCalls, pre, co, depth, nestOk, run, bypass

vars == <<cfg, phost, call, nCalls, pre, co, depth, nestOk, run, bypass>>

(***************************************************************************)
(* Program constants that live outside EVE_CoDl.h.                         *)
(***************************************************************************)
EVE_DL_STATE_STACK_SIZE == 4
EVE_DL_STATE_STACK_MASK == EVE_DL_STATE_STACK_SIZE - 1

LINE_STRIP == 4
EDGE_STRIP_R == 5
EDGE_STRIP_L == 6
EDGE_STRIP_A == 7
EDGE_STRIP_B == 8

\* x & EVE_DL_STATE_STACK_MASK, for a mask of the form 2^k - 1 and x taken
\* after integer promotion (so that -1 & 3 = 3).
AndMask(x, mask) == x % (mask + 1)

\* c & 0xFFFFFF on a uint32_t
Rgb24(c) == c % 16777216

(***************************************************************************)
(* The shadow state after EVE_CoDlImpl_resetDlState.                       *)
(***************************************************************************)
ResetDlState ==
    [ ColorRGB |-> 16777215, ColorA |-> 255, Handle |-> 0, Cell |-> 0,
      PointSize |-> 16, LineWidth |-> 16, VertexFormat |-> 4,
      PaletteSource |-> 0, BitmapTransform |-> FALSE,
      ScissorX |-> 0, ScissorY |-> 0,
      ScissorWidth |-> 2048, ScissorHeight |-> 2048 ]

ResetHost ==
    [ DlState |-> [i \in 0 .. EVE_DL_STATE_STACK_MASK |-> ResetDlState],
      DlStateIndex |-> 0,
      DlPrimitive |-> 0,
      dl |-> <<>> ]

(***************************************************************************)
(* EVE_CoCmd_dl and the EVE_DL_STATE macro.                                *)
(***************************************************************************)
Word(op, args) == [op |-> op, args |-> args]

EVE_CoCmd_dl(h, word) == [h EXCEPT !.dl = Append(@, word)]

EVE_DL_STATE(h) == h.DlState[h.DlStateIndex]

StoreState(h, fld, v) == [h EXCEPT !.DlState[h.DlStateIndex][fld] = v]

(***************************************************************************)
(* Cached setters.  With EVE_DL_OPTIMIZE the comparison guards both the    *)
(* emission and the store; without it the word is always emitted and       *)
(* nothing is stored.                                                      *)
(***************************************************************************)
\* Mutant: the comparison uses the unmasked argument.
Mut_colorRgb_ex_unmasked(h, c) ==
    LET rgb == Rgb24(c) IN
    IF cfg.optimize => c # EVE_DL_STATE(h).ColorRGB
    THEN LET e == EVE_CoCmd_dl(h, Word("COLOR_RGB", <<Rgb24(c)>>)) IN
         IF cfg.optimize THEN StoreState(e, "ColorRGB", rgb) ELSE e
    ELSE h

EVE_CoDl_colorRgb_ex(h, c) ==
    LET rgb == Rgb24(c) IN
    IF cfg.optimize => rgb # EVE_DL_STATE(h).ColorRGB
    THEN LET e == EVE_CoCmd_dl(h, Word("COLOR_RGB", <<Rgb24(c)>>)) IN
         IF cfg.optimize THEN StoreState(e, "ColorRGB", rgb) ELSE e
    ELSE h

EVE_CoDl_colorA(h, alpha) ==
    IF cfg.optimize => alpha # EVE_DL_STATE(h).ColorA
    THEN LET e == EVE_CoCmd_dl(h, Word("COLOR_A", <<alpha>>)) IN
         IF cfg.optimize THEN StoreState(e, "ColorA", alpha) ELSE e
    ELSE h

EVE_CoDl_bitmapHandle(h, handle) ==
    IF cfg.optimize => handle # EVE_DL_STATE(h).Handle
    THEN LET e == EVE_CoCmd_dl(h, Word("BITMAP_HANDLE", <<handle>>)) IN
         IF cfg.optimize THEN StoreState(e, "Handle", handle) ELSE e
    ELSE h

\* Mutant: the emitted value is not stored.
Mut_cell_noStore(h, cell) ==
    IF cfg.optimize => cell # EVE_DL_STATE(h).Cell
    THEN EVE_CoCmd_dl(h, Word("CELL", <<cell>>))
    ELSE h

EVE_CoDl_cell(h, cell) ==
    IF cfg.optimize => cell # EVE_DL_STATE(h).Cell
    THEN LET e == EVE_CoCmd_dl(h, Word("CELL", <<cell>>)) IN
         IF cfg.optimize THEN StoreState(e, "Cell", cell) ELSE e
    ELSE h

EVE_CoDl_pointSize(h, size) ==
    IF cfg.optimize => size # EVE_DL_STATE(h).PointSize
    THEN LET e == EVE_CoCmd_dl(h, Word("POINT_SIZE", <<size>>)) IN
         IF cfg.optimize THEN StoreState(e, "PointSize", size) ELSE e
    ELSE h

\* Mutant: the value is stored in the neighbouring field.
Mut_lineWidth_wrongField(h, width) ==
    IF cfg.optimize => width # EVE_DL_STATE(h).LineWidth
    THEN LET e == EVE_CoCmd_dl(h, Word("LINE_WIDTH", <<width>>)) IN
         IF cfg.optimize THEN StoreState(e, "PointSize", width) ELSE e
    ELSE h

EVE_CoDl_lineWidth(h, width) ==
    IF cfg.optimize => width # EVE_DL_STATE(h).LineWidth
    THEN LET e == EVE_CoCmd_dl(h, Word("LINE_WIDTH", <<width>>)) IN
         IF cfg.optimize THEN StoreState(e, "LineWidth", width) ELSE e
    ELSE h

EVE_CoDl_vertexFormat(h, frac) ==
    IF cfg.optimize => frac # EVE_DL_STATE(h).VertexFormat
    THEN LET e == EVE_CoCmd_dl(h, Word("VERTEX_FORMAT", <<frac>>)) IN
         IF cfg.optimize THEN StoreState(e, "VertexFormat", frac) ELSE e
    ELSE h

EVE_CoDl_paletteSource(h, addr) ==
    IF cfg.optimize => addr # EVE_DL_STATE(h).PaletteSource
    THEN LET e == EVE_CoCmd_dl(h, Word("PALETTE_SOURCE", <<addr>>)) IN
         IF cfg.optimize THEN StoreState(e, "PaletteSource", addr) ELSE e
    ELSE h

(***************************************************************************)
(* Scissor: the comparison needs EVE_DL_OPTIMIZE and EVE_DL_CACHE_SCISSOR, *)
(* the store needs EVE_DL_CACHE_SCISSOR alone.                             *)
(***************************************************************************)
\* Mutant: the scissor switch alone enables the comparison.
Mut_scissorXY_switchAlone(h, x, y) ==
    IF cfg.cacheScissor
          => (EVE_DL_STATE(h).ScissorX # x \/ EVE_DL_STATE(h).ScissorY # y)
    THEN LET e == EVE_CoCmd_dl(h, Word("SCISSOR_XY", <<x, y>>)) IN
         IF cfg.cacheScissor
         THEN StoreState(StoreState(e, "ScissorX", x), "ScissorY", y)
         ELSE e
    ELSE h

EVE_CoDl_scissorXY(h, x, y) ==
    IF (cfg.optimize /\ cfg.cacheScissor)
          => (EVE_DL_STATE(h).ScissorX # x \/ EVE_DL_STATE(h).ScissorY # y)
    THEN LET e == EVE_CoCmd_dl(h, Word("SCISSOR_XY", <<x, y>>)) IN
         IF cfg.cacheScissor
         THEN StoreState(StoreState(e, "ScissorX", x), "ScissorY", y)
         ELSE e
    ELSE h

EVE_CoDl_scissorSize(h, width, height) ==
    IF (cfg.optimize /\ cfg.cacheScissor)
          => (EVE_DL_STATE(h).ScissorWidth # width
                \/ EVE_DL_STATE(h).ScissorHeight # height)
    THEN LET e == EVE_CoCmd_dl(h, Word("SCISSOR_SIZE", <<width, height>>)) IN
         IF cfg.cacheScissor
         THEN StoreState(StoreState(e, "ScissorWidth", width),
                         "ScissorHeight", height)
         ELSE e
    ELSE h

(***************************************************************************)
(* Bitmap transform.  BitmapTransform = TRUE means "not known to be the    *)
(* identity"; every coefficient setter emits and raises it.                *)
(***************************************************************************)
MarkTransform(h) ==
    IF cfg.optimize THEN StoreState(h, "BitmapTransform", TRUE) ELSE h

EVE_CoDl_bitmapTransformA(h, v) ==
    MarkTransform(EVE_CoCmd_dl(h, Word("BITMAP_TRANSFORM_A", <<v>>)))

EVE_CoDl_bitmapTransformA_ex(h, p, v) ==
    MarkTransform(EVE_CoCmd_dl(h, Word("BITMAP_TRANSFORM_A_EXT", <<p, v>>)))

EVE_CoDl_bitmapTransformB(h, v) ==
    MarkTransform(EVE_CoCmd_dl(h, Word("BITMAP_TRANSFORM_B", <<v>>)))

EVE_CoDl_bitmapTransformB_ex(h, p, v) ==
    MarkTransform(EVE_CoCmd_dl(h, Word("BITMAP_TRANSFORM_B_EXT", <<p, v>>)))

\* Mutant: the coefficient setter leaves the flag alone.
Mut_bitmapTransformC_noMark(h, v) ==
    EVE_CoCmd_dl(h, Word("BITMAP_TRANSFORM_C", <<v>>))

EVE_CoDl_bitmapTransformC(h, v) ==
    MarkTransform(EVE_CoCmd_dl(h, Word("BITMAP_TRANSFORM_C", <<v>>)))

EVE_CoDl_bitmapTransformD(h, v) ==
    MarkTransform(EVE_CoCmd_dl(h, Word("BITMAP_TRANSFORM_D", <<v>>)))

EVE_CoDl_bitmapTransformD_ex(h, p, v) ==
    MarkTransform(EVE_CoCmd_dl(h, Word("BITMAP_TRANSFORM_D_EXT", <<p, v>>)))

EVE_CoDl_bitmapTransformE(h, v) ==
    MarkTransform(EVE_CoCmd_dl(h, Word("BITMAP_TRANSFORM_E", <<v>>)))

EVE_CoDl_bitmapTransformE_ex(h, p, v) ==
    MarkTransform(EVE_CoCmd_dl(h, Word("BITMAP_TRANSFORM_E_EXT", <<p, v>>)))

EVE_CoDl_bitmapTransformF(h, v) ==
    MarkTransform(EVE_CoCmd_dl(h, Word("BITMAP_TRANSFORM_F", <<v>>)))

EVE_CoDl_bitmapTransform_ex(h, p, a, b, c, d, e, f) ==
    MarkTransform(
      EVE_CoDl_bitmapTransformF(
        EVE_CoDl_bitmapTransformE_ex(
          EVE_CoDl_bitmapTransformD_ex(
            EVE_CoDl_bitmapTransformC(
              EVE_CoDl_bitmapTransformB_ex(
                EVE_CoDl_bitmapTransformA_ex(h, p, a), p, b), c), p, d), p, e), f))

\* Mutant: the flag is not lowered after the six words.
Mut_identity_flagLeft(h) ==
    IF cfg.optimize => EVE_DL_STATE(h).BitmapTransform
    THEN EVE_CoDl_bitmapTransformF(
           EVE_CoDl_bitmapTransformE_ex(
             EVE_CoDl_bitmapTransformD_ex(
               EVE_CoDl_bitmapTransformC(
                 EVE_CoDl_bitmapTransformB_ex(
                   EVE_CoDl_bitmapTransformA_ex(h, 0, 256), 0, 0), 0),
               0, 0), 0, 256), 0)
    ELSE h

EVE_CoDl_bitmapTransform_identity(h) ==
    IF cfg.optimize => EVE_DL_STATE(h).BitmapTransform
    THEN LET m == EVE_CoDl_bitmapTransformF(
                    EVE_CoDl_bitmapTransformE_ex(
                      EVE_CoDl_bitmapTransformD_ex(
                        EVE_CoDl_bitmapTransformC(
                          EVE_CoDl_bitmapTransformB_ex(
                            EVE_CoDl_bitmapTransformA_ex(h, 0, 256), 0, 0), 0),
                        0, 0), 0, 256), 0)
         IN IF cfg.optimize THEN StoreState(m, "BitmapTransform", FALSE) ELSE m
    ELSE h

(***************************************************************************)
(* Primitive begin / end.                                                  *)
(***************************************************************************)
\* Mutant: one strip type is missing from the switch.
Mut_EffectivePrimitive_noEdgeB(oldPrim) ==
    IF oldPrim \in {LINE_STRIP, EDGE_STRIP_R, EDGE_STRIP_L, EDGE_STRIP_A}
    THEN 0
    ELSE oldPrim

EffectivePrimitive(oldPrim) ==
    IF oldPrim \in {LINE_STRIP, EDGE_STRIP_R, EDGE_STRIP_L,
                    EDGE_STRIP_A, EDGE_STRIP_B}
    THEN 0
    ELSE oldPrim

\* Mutant: the comparison is made in the build without cache too.
Mut_begin_alwaysCompares(h, prim) ==
    IF prim # EffectivePrimitive(h.DlPrimitive)
    THEN LET e == EVE_CoCmd_dl(h, Word("BEGIN", <<prim>>)) IN
         IF cfg.optimize THEN [e EXCEPT !.DlPrimitive = prim] ELSE e
    ELSE h

EVE_CoDl_begin(h, prim) ==
    IF cfg.optimize => prim # EffectivePrimitive(h.DlPrimitive)
    THEN LET e == EVE_CoCmd_dl(h, Word("BEGIN", <<prim>>)) IN
         IF cfg.optimize THEN [e EXCEPT !.DlPrimitive = prim] ELSE e
    ELSE h

\* Mutant: END is emitted but the active primitive is not cleared.
Mut_end_noClear(h) ==
    IF cfg.endPrimitive \/ ~cfg.optimize
    THEN IF cfg.optimize => h.DlPrimitive # 0
         THEN EVE_CoCmd_dl(h, Word("END", <<>>))
         ELSE h
    ELSE h

\* Mutant: the END switch alone decides, also in the build without cache.
Mut_end_switchOnly(h) ==
    IF cfg.endPrimitive
    THEN IF cfg.optimize => h.DlPrimitive # 0
         THEN LET e == EVE_CoCmd_dl(h, Word("END", <<>>)) IN
              IF cfg.optimize THEN [e EXCEPT !.DlPrimitive = 0] ELSE e
         ELSE h
    ELSE h

\* Mutant: END is emitted whether or not a primitive is active.
Mut_end_unconditional(h) ==
    IF cfg.endPrimitive \/ ~cfg.optimize
    THEN LET e == EVE_CoCmd_dl(h, Word("END", <<>>)) IN
         IF cfg.optimize THEN [e EXCEPT !.DlPrimitive = 0] ELSE e
    ELSE h

EVE_CoDl_end(h) ==
    IF cfg.endPrimitive \/ ~cfg.optimize
    THEN IF cfg.optimize => h.DlPrimitive # 0
         THEN LET e == EVE_CoCmd_dl(h, Word("END", <<>>)) IN
              IF cfg.optimize THEN [e EXCEPT !.DlPrimitive = 0] ELSE e
         ELSE h
    ELSE h

(***************************************************************************)
(* Context save / restore.                                                 *)
(***************************************************************************)
\* Mutant: the index stops at the last slot instead of wrapping to slot 0.
Mut_saveContext_noWrap(h) ==
    LET e == EVE_CoCmd_dl(h, Word("SAVE_CONTEXT", <<>>))
        nextState == IF h.DlStateIndex = EVE_DL_STATE_STACK_MASK
                     THEN h.DlStateIndex ELSE h.DlStateIndex + 1
    IN IF cfg.optimize \/ cfg.cacheScissor
       THEN [e EXCEPT !.DlState[nextState] = h.DlState[h.DlStateIndex],
                      !.DlStateIndex = nextState]
       ELSE e

\* Mutant: the snapshot is copied but the index is left where it was.
Mut_saveContext_staysPut(h) ==
    LET e == EVE_CoCmd_dl(h, Word("SAVE_CONTEXT", <<>>))
        nextState == AndMask(h.DlStateIndex + 1, EVE_DL_STATE_STACK_MASK)
    IN IF cfg.optimize \/ cfg.cacheScissor
       THEN [e EXCEPT !.DlState[nextState] = h.DlState[h.DlStateIndex]]
       ELSE e

EVE_CoDl_saveContext(h) ==
    LET e == EVE_CoCmd_dl(h, Word("SAVE_CONTEXT", <<>>))
        nextState == AndMask(h.DlStateIndex + 1, EVE_DL_STATE_STACK_MASK)
    IN IF cfg.optimize \/ cfg.cacheScissor
       THEN [e EXCEPT !.DlState[nextState] = h.DlState[h.DlStateIndex],
                      !.DlStateIndex = nextState]
       ELSE e

\* Mutant: the snapshot that is left is carried into the restored slot.
Mut_restoreContext_keeps(h) ==
    LET e == EVE_CoCmd_dl(h, Word("RESTORE_CONTEXT", <<>>))
        prevState == AndMask(h.DlStateIndex - 1, EVE_DL_STATE_STACK_MASK)
    IN IF cfg.optimize \/ cfg.cacheScissor
       THEN [e EXCEPT !.DlState[prevState] = h.DlState[h.DlStateIndex],
                      !.DlStateIndex = prevState]
       ELSE e

\* Mutant: the index stops at slot 0 instead of wrapping.
Mut_restoreContext_clamped(h) ==
    LET e == EVE_CoCmd_dl(h, Word("RESTORE_CONTEXT", <<>>)) IN
    IF cfg.optimize \/ cfg.cacheScissor
    THEN [e EXCEPT !.DlStateIndex =
                      IF h.DlStateIndex = 0 THEN 0 ELSE h.DlStateIndex - 1]
    ELSE e

\* Mutant: the active primitive is ended with the context that is left.
Mut_restoreContext_endsPrimitive(h) ==
    LET e == EVE_CoCmd_dl(h, Word("RESTORE_CONTEXT", <<>>)) IN
    IF cfg.optimize \/ cfg.cacheScissor
    THEN [e EXCEPT !.DlStateIndex =
                      AndMask(h.DlStateIndex - 1, EVE_DL_STATE_STACK_MASK),
                   !.DlPrimitive = 0]
    ELSE e

EVE_CoDl_restoreContext(h) ==
    LET e == EVE_CoCmd_dl(h, Word("RESTORE_CONTEXT", <<>>)) IN
    IF cfg.optimize \/ cfg.cacheScissor
    THEN [e EXCEPT !.DlStateIndex =
                      AndMask(h.DlStateIndex - 1, EVE_DL_STATE_STACK_MASK)]
    ELSE e

(***************************************************************************)
(* Reference coprocessor: the graphics context the emitted words put in    *)
(* force, with the context stack SAVE_CONTEXT / RESTORE_CONTEXT work on.   *)
(***************************************************************************)
CoStackDepth == 4

CoResetContext ==
    [ ColorRGB |-> 16777215, ColorA |-> 255, Handle |-> 0, Cell |-> 0,
      PointSize |-> 16, LineWidth |-> 16, VertexFormat |-> 4,
      PaletteSource |-> 0,
      ScissorX |-> 0, ScissorY |-> 0,
      ScissorWidth |-> 2048, ScissorHeight |-> 2048,
      A |-> <<0, 256>>, B |-> <<0, 0>>, C |-> 0,
      D |-> <<0, 0>>, E |-> <<0, 256>>, F |-> 0 ]

CoReset == [ctx |-> CoResetContext, stack |-> <<>>]

CoExec(c, w) ==
    LET a == w.args
        Set(fld, v) == [c EXCEPT !.ctx[fld] = v]
    IN CASE w.op = "COLOR_RGB" -> Set("ColorRGB", a[1])
         [] w.op = "COLOR_A" -> Set("ColorA", a[1])
         [] w.op = "BITMAP_HANDLE" -> Set("Handle", a[1])
         [] w.op = "CELL" -> Set("Cell", a[1])
         [] w.op = "POINT_SIZE" -> Set("PointSize", a[1])
         [] w.op = "LINE_WIDTH" -> Set("LineWidth", a[1])
         [] w.op = "VERTEX_FORMAT" -> Set("VertexFormat", a[1])
         [] w.op = "PALETTE_SOURCE" -> Set("PaletteSource", a[1])
         [] w.op = "SCISSOR_XY" ->
              [c EXCEPT !.ctx.ScissorX = a[1], !.ctx.ScissorY = a[2]]
         [] w.op = "SCISSOR_SIZE" ->
              [c EXCEPT !.ctx.ScissorWidth = a[1], !.ctx.ScissorHeight = a[2]]
         [] w.op = "BITMAP_TRANSFORM_A" -> Set("A", <<0, a[1]>>)
         [] w.op = "BITMAP_TRANSFORM_B" -> Set("B", <<0, a[1]>>)
         [] w.op = "BITMAP_TRANSFORM_D" -> Set("D", <<0, a[1]>>)
         [] w.op = "BITMAP_TRANSFORM_E" -> Set("E", <<0, a[1]>>)
         [] w.op = "BITMAP_TRANSFORM_A_EXT" -> Set("A", <<a[1], a[2]>>)
         [] w.op = "BITMAP_TRANSFORM_B_EXT" -> Set("B", <<a[1], a[2]>>)
         [] w.op = "BITMAP_TRANSFORM_D_EXT" -> Set("D", <<a[1], a[2]>>)
         [] w.op = "BITMAP_TRANSFORM_E_EXT" -> Set("E", <<a[1], a[2]>>)
         [] w.op = "BITMAP_TRANSFORM_C" -> Set("C", a[1])
         [] w.op = "BITMAP_TRANSFORM_F" -> Set("F", a[1])
         [] w.op = "SAVE_CONTEXT" ->
              [c EXCEPT !.stack =
                  IF Len(c.stack) < CoStackDepth
                  THEN Append(c.stack, c.ctx)
                  ELSE Append(Tail(c.stack), c.ctx)]
         [] w.op = "RESTORE_CONTEXT" ->
              IF c.stack = <<>>
              THEN [c EXCEPT !.ctx = CoResetContext]
              ELSE [ctx |-> c.stack[Len(c.stack)],
                    stack |-> SubSeq(c.stack, 1, Len(c.stack) - 1)]
         [] OTHER -> c

RECURSIVE CoRun(_, _)
CoRun(c, ws) ==
    IF ws = <<>> THEN c ELSE CoRun(CoExec(c, Head(ws)), Tail(ws))

(***************************************************************************)
(* Inputs the client draws its arguments from.                             *)
(***************************************************************************)
ColorVals == {16777215, 1, 16777217}
AlphaVals == {255, 0}
HandleVals == {0, 1}
CellVals == {0, 1}
PointSizeVals == {16, 32}
LineWidthVals == {16, 8}
VertexFormatVals == {4, 0}
PaletteVals == {0, 1024}
ScissorXYVals == {<<0, 0>>, <<1, 0>>, <<1, 1>>}
ScissorSizeVals == {<<2048, 2048>>, <<1, 2048>>, <<1, 1>>}
CoeffVals == {256, 0}
ExtVals == {<<0, 256>>, <<1, 0>>}
PrimVals == {0, 1, 2, LINE_STRIP, EDGE_STRIP_R, EDGE_STRIP_L,
             EDGE_STRIP_A, EDGE_STRIP_B}

(***************************************************************************)
(* One call of the encoder: the host context enters the call with an empty *)
(* dl and leaves it with the words the call emitted.                       *)
(***************************************************************************)
Entry == [phost EXCEPT !.dl = <<>>]

Do(h) == phost' = h /\ UNCHANGED cfg

Call_colorRgb_ex(c) == Do(EVE_CoDl_colorRgb_ex(Entry, c))
Call_colorA(alpha) == Do(EVE_CoDl_colorA(Entry, alpha))
Call_bitmapHandle(handle) == Do(EVE_CoDl_bitmapHandle(Entry, handle))
Call_cell(cell) == Do(EVE_CoDl_cell(Entry, cell))
Call_pointSize(size) == Do(EVE_CoDl_pointSize(Entry, size))
Call_lineWidth(width) == Do(EVE_CoDl_lineWidth(Entry, width))
Call_vertexFormat(frac) == Do(EVE_CoDl_vertexFormat(Entry, frac))
Call_paletteSource(addr) == Do(EVE_CoDl_paletteSource(Entry, addr))
Call_scissorXY(x, y) == Do(EVE_CoDl_scissorXY(Entry, x, y))
Call_scissorSize(width, height) ==
    Do(EVE_CoDl_scissorSize(Entry, width, height))
Call_bitmapTransformA(v) == Do(EVE_CoDl_bitmapTransformA(Entry, v))
Call_bitmapTransformA_ex(p, v) == Do(EVE_CoDl_bitmapTransformA_ex(Entry, p, v))
Call_bitmapTransformB(v) == Do(EVE_CoDl_bitmapTransformB(Entry, v))
Call_bitmapTransformB_ex(p, v) == Do(EVE_CoDl_bitmapTransformB_ex(Entry, p, v))
Call_bitmapTransformC(v) == Do(EVE_CoDl_bitmapTransformC(Entry, v))
Call_bitmapTransformD(v) == Do(EVE_CoDl_bitmapTransformD(Entry, v))
Call_bitmapTransformD_ex(p, v) == Do(EVE_CoDl_bitmapTransformD_ex(Entry, p, v))
Call_bitmapTransformE(v) == Do(EVE_CoDl_bitmapTransformE(Entry, v))
Call_bitmapTransformE_ex(p, v) == Do(EVE_CoDl_bitmapTransformE_ex(Entry, p, v))
Call_bitmapTransformF(v) == Do(EVE_CoDl_bitmapTransformF(Entry, v))
Call_bitmapTransform_ex(p, a, b, c, d, e, f) ==
    Do(EVE_CoDl_bitmapTransform_ex(Entry, p, a, b, c, d, e, f))
Call_bitmapTransform_identity == Do(EVE_CoDl_bitmapTransform_identity(Entry))
Call_begin(prim) == Do(EVE_CoDl_begin(Entry, prim))
Call_end == Do(EVE_CoDl_end(Entry))
Call_saveContext == Do(EVE_CoDl_saveContext(Entry))
Call_restoreContext == Do(EVE_CoDl_restoreContext(Entry))

(***************************************************************************)
(* Initial state: EVE_CoDlImpl_resetDlState has run, in any build.         *)
(***************************************************************************)
NoRun == [base |-> ResetHost, ups |-> 0, downs |-> 0]

Init ==
    /\ cfg \in [optimize : BOOLEAN, cacheScissor : BOOLEAN,
                endPrimitive : BOOLEAN]
    /\ phost = ResetHost
    /\ call = [fn |-> "resetDlState", args |-> <<>>]
    /\ nCalls = 0
    /\ pre = ResetHost
    /\ co = CoReset
    /\ depth = 0
    /\ nestOk = TRUE
    /\ run = NoRun
    /\ bypass = 0

(***************************************************************************)
(* Spec: a client that makes up to MaxCalls calls of any kind; pre is the  *)
(* host context on entry to the latest call.                               *)
(***************************************************************************)
MaxCalls == 3

Tracked(fn, args, A) ==
    /\ nCalls < MaxCalls
    /\ A
    /\ call' = [fn |-> fn, args |-> args]
    /\ nCalls' = nCalls + 1
    /\ pre' = Entry
    /\ UNCHANGED <<co, depth, nestOk, run, bypass>>

Next ==
    \/ \E v \in ColorVals : Tracked("colorRgb_ex", <<v>>, Call_colorRgb_ex(v))
    \/ \E v \in AlphaVals : Tracked("colorA", <<v>>, Call_colorA(v))
    \/ \E v \in HandleVals : Tracked("bitmapHandle", <<v>>, Call_bitmapHandle(v))
    \/ \E v \in CellVals : Tracked("cell", <<v>>, Call_cell(v))
    \/ \E v \in PointSizeVals : Tracked("pointSize", <<v>>, Call_pointSize(v))
    \/ \E v \in LineWidthVals : Tracked("lineWidth", <<v>>, Call_lineWidth(v))
    \/ \E v \in VertexFormatVals : Tracked("vertexFormat", <<v>>, Call_vertexFormat(v))
    \/ \E v \in PaletteVals : Tracked("paletteSource", <<v>>, Call_paletteSource(v))
    \/ \E xy \in ScissorXYVals :
          Tracked("scissorXY", xy, Call_scissorXY(xy[1], xy[2]))
    \/ \E wh \in ScissorSizeVals :
          Tracked("scissorSize", wh, Call_scissorSize(wh[1], wh[2]))
    \/ \E v \in CoeffVals :
          Tracked("bitmapTransformA", <<v>>, Call_bitmapTransformA(v))
    \/ \E pv \in ExtVals :
          Tracked("bitmapTransformA_ex", pv, Call_bitmapTransformA_ex(pv[1], pv[2]))
    \/ \E v \in CoeffVals :
          Tracked("bitmapTransformB", <<v>>, Call_bitmapTransformB(v))
    \/ \E pv \in ExtVals :
          Tracked("bitmapTransformB_ex", pv, Call_bitmapTransformB_ex(pv[1], pv[2]))
    \/ \E v \in CoeffVals :
          Tracked("bitmapTransformC", <<v>>, Call_bitmapTransformC(v))
    \/ \E v \in CoeffVals :
          Tracked("bitmapTransformD", <<v>>, Call_bitmapTransformD(v))
    \/ \E pv \in ExtVals :
          Tracked("bitmapTransformD_ex", pv, Call_bitmapTransformD_ex(pv[1], pv[2]))
    \/ \E v \in CoeffVals :
          Tracked("bitmapTransformE", <<v>>, Call_bitmapTransformE(v))
    \/ \E pv \in ExtVals :
          Tracked("bitmapTransformE_ex", pv, Call_bitmapTransformE_ex(pv[1], pv[2]))
    \/ \E v \in CoeffVals :
          Tracked("bitmapTransformF", <<v>>, Call_bitmapTransformF(v))
    \/ \E pv \in ExtVals :
          Tracked("bitmapTransform_ex", <<pv[1], pv[2], 0, 0, 0, pv[2], 0>>, 
                  Call_bitmapTransform_ex(pv[1], pv[2], 0, 0, 0, pv[2], 0))
    \/ Tracked("bitmapTransform_identity", <<>>, Call_bitmapTransform_identity)
    \/ \E prim \in PrimVals : Tracked("begin", <<prim>>, Call_begin(prim))
    \/ Tracked("end", <<>>, Call_end)
    \/ Tracked("saveContext", <<>>, Call_saveContext)
    \/ Tracked("restoreContext", <<>>, Call_restoreContext)

Spec == Init /\ [][Next]_vars

(***************************************************************************)
(* Vocabulary of the properties.                                           *)
(***************************************************************************)
Caching == cfg.optimize /\ cfg.cacheScissor

ScalarFns == {"colorRgb_ex", "colorA", "bitmapHandle", "cell", "pointSize",
              "lineWidth", "vertexFormat", "paletteSource"}
ScissorFns == {"scissorXY", "scissorSize"}
CacheableFns == ScalarFns \cup ScissorFns
CoeffFns == {"bitmapTransformA", "bitmapTransformA_ex", "bitmapTransformB",
             "bitmapTransformB_ex", "bitmapTransformC", "bitmapTransformD",
             "bitmapTransformD_ex", "bitmapTransformE", "bitmapTransformE_ex",
             "bitmapTransformF"}

\* The shadow fields a cacheable setter is about, and the word it stands for.
FieldsOf(fn) ==
    CASE fn = "colorRgb_ex" -> <<"ColorRGB">>
      [] fn = "colorA" -> <<"ColorA">>
      [] fn = "bitmapHandle" -> <<"Handle">>
      [] fn = "cell" -> <<"Cell">>
      [] fn = "pointSize" -> <<"PointSize">>
      [] fn = "lineWidth" -> <<"LineWidth">>
      [] fn = "vertexFormat" -> <<"VertexFormat">>
      [] fn = "paletteSource" -> <<"PaletteSource">>
      [] fn = "scissorXY" -> <<"ScissorX", "ScissorY">>
      [] fn = "scissorSize" -> <<"ScissorWidth", "ScissorHeight">>

OpcodeOf(fn) ==
    CASE fn = "colorRgb_ex" -> "COLOR_RGB"
      [] fn = "colorA" -> "COLOR_A"
      [] fn = "bitmapHandle" -> "BITMAP_HANDLE"
      [] fn = "cell" -> "CELL"
      [] fn = "pointSize" -> "POINT_SIZE"
      [] fn = "lineWidth" -> "LINE_WIDTH"
      [] fn = "vertexFormat" -> "VERTEX_FORMAT"
      [] fn = "paletteSource" -> "PALETTE_SOURCE"
      [] fn = "scissorXY" -> "SCISSOR_XY"
      [] fn = "scissorSize" -> "SCISSOR_SIZE"

\* The value a call asks for, as a tuple over FieldsOf: colorRgb_ex asks
\* for the low 24 bits of its argument.
Requested(c) ==
    IF c.fn = "colorRgb_ex" THEN <<Rgb24(c.args[1])>> ELSE c.args

\* The value the active snapshot of h holds for the fields of fn.
Held(h, fn) ==
    [i \in 1 .. Len(FieldsOf(fn)) |-> EVE_DL_STATE(h)[FieldsOf(fn)[i]]]

\* h with the fields of fn in the active snapshot set to the tuple v.
WithHeld(h, fn, v) ==
    [h EXCEPT !.DlState[h.DlStateIndex] =
        [f \in DOMAIN @ |->
            IF \E i \in 1 .. Len(FieldsOf(fn)) : FieldsOf(fn)[i] = f
            THEN v[CHOOSE i \in 1 .. Len(FieldsOf(fn)) : FieldsOf(fn)[i] = f]
            ELSE @[f]]]

\* Whether the cache of the setter fn is compiled in.
CacheOn(fn) == IF fn \in ScissorFns THEN Caching ELSE cfg.optimize

(***************************************************************************)
(* C2: with caching enabled, a cacheable setter called with the value the  *)
(* active snapshot already holds emits nothing and changes nothing;        *)
(* called with another value it emits exactly the one word for that value  *)
(* and stores the value in its own field(s) of the active snapshot, every  *)
(* other field, snapshot, the index and the primitive staying as they      *)
(* were.  (colorRgb_ex: the value is the low 24 bits of the argument.)     *)
(***************************************************************************)
C2_SetterContract ==
    (call.fn \in CacheableFns /\ CacheOn(call.fn)) =>
        IF Requested(call) = Held(pre, call.fn)
        THEN phost = pre
        ELSE phost = [WithHeld(pre, call.fn, Requested(call)) EXCEPT
                        !.dl = <<Word(OpcodeOf(call.fn), Requested(call))>>]

C2_Witness ==
    /\ cfg.optimize
    /\ call.fn = "paletteSource"
    /\ phost.dl = <<>>
    /\ EVE_DL_STATE(phost).PaletteSource = 1024
    /\ phost.DlStateIndex = 1

(***************************************************************************)
(* C3, as claimed: with caching enabled, two consecutive calls setX(v);    *)
(* setX(v) of a cacheable setter emit exactly one word between them.       *)
(***************************************************************************)
C3_ExactlyOne ==
    [][(Caching /\ call.fn \in CacheableFns /\ call' = call)
          => Len(phost.dl) + Len(phost'.dl) = 1]_vars

(***************************************************************************)
(* C3, amended: with caching enabled, of two consecutive calls setX(v);    *)
(* setX(v) the second emits nothing, and the first emits exactly one word  *)
(* if the active snapshot held another value before it and nothing if it   *)
(* already held v; so the pair emits at most one word, never two.          *)
(***************************************************************************)
C3_SecondSuppressed ==
    [][(Caching /\ call.fn \in CacheableFns /\ call' = call)
          => /\ phost'.dl = <<>>
             /\ Len(phost.dl) =
                  (IF Held(pre, call.fn) = Requested(call) THEN 0 ELSE 1)
             /\ Held(phost', call.fn) = Requested(call)]_vars

C3_Witness ==
    /\ Caching
    /\ call.fn = "scissorSize"
    /\ call.args = <<1, 2048>>
    /\ pre = [phost EXCEPT !.dl = <<>>]
    /\ phost.dl = <<>>
    /\ nCalls = 3

(***************************************************************************)
(* C4, as claimed: with caching enabled, setX(v1) then setX(v2) with       *)
(* v1 # v2 emit exactly two words and leave the active field X at v2.      *)
(***************************************************************************)
C4_ExactlyTwo ==
    [][(Caching /\ call.fn \in CacheableFns /\ call'.fn = call.fn
            /\ call'.args # call.args)
          => /\ Len(phost.dl) + Len(phost'.dl) = 2
             /\ Held(phost', call.fn) = call'.args]_vars

(***************************************************************************)
(* C4, amended: with caching enabled, setX(v1) then setX(v2) with values   *)
(* that differ (for colorRgb_ex: in their low 24 bits) emit exactly two    *)
(* words if the active snapshot held a value other than v1 before the      *)
(* first call and exactly one (that of the second call) if it held v1,     *)
(* and leave the active field X at v2 (colorRgb_ex: at v2 & 0xFFFFFF).     *)
(***************************************************************************)
C4_Alternation ==
    [][(Caching /\ call.fn \in CacheableFns /\ call'.fn = call.fn
            /\ Requested(call') # Requested(call))
          => /\ phost'.dl = <<Word(OpcodeOf(call.fn), Requested(call'))>>
             /\ Len(phost.dl) =
                  (IF Held(pre, call.fn) = Requested(call) THEN 0 ELSE 1)
             /\ Held(phost', call.fn) = Requested(call')]_vars

C4_Witness ==
    /\ Caching
    /\ call.fn = "colorRgb_ex"
    /\ call.args = <<16777215>>
    /\ phost.dl = <<Word("COLOR_RGB", <<16777215>>)>>
    /\ EVE_DL_STATE(pre).ColorRGB = 1
    /\ nCalls = 3

(***************************************************************************)
(* C5: in the caching build, bitmapTransform_identity called first after   *)
(* the reset emits nothing; called right after any single coefficient      *)
(* setter it emits exactly the six identity words A=256, B=0, C=0, D=0,    *)
(* E=256, F=0 in that order and leaves the flag at "identity"              *)
(* (BitmapTransform = FALSE); called right after itself it emits nothing.  *)
(***************************************************************************)
IdentityWords ==
    << Word("BITMAP_TRANSFORM_A_EXT", <<0, 256>>),
       Word("BITMAP_TRANSFORM_B_EXT", <<0, 0>>),
       Word("BITMAP_TRANSFORM_C", <<0>>),
       Word("BITMAP_TRANSFORM_D_EXT", <<0, 0>>),
       Word("BITMAP_TRANSFORM_E_EXT", <<0, 256>>),
       Word("BITMAP_TRANSFORM_F", <<0>>) >>

C5_IdentitySkip ==
    [][(cfg.optimize /\ call'.fn = "bitmapTransform_identity")
          => /\ call.fn = "resetDlState" => phost'.dl = <<>>
             /\ call.fn \in CoeffFns =>
                   /\ phost'.dl = IdentityWords
                   /\ ~EVE_DL_STATE(phost').BitmapTransform
             /\ call.fn = "bitmapTransform_identity" =>
                   /\ phost'.dl = <<>>
                   /\ ~EVE_DL_STATE(phost').BitmapTransform]_vars

C5_Witness ==
    /\ cfg.optimize
    /\ call.fn = "bitmapTransform_identity"
    /\ phost.dl = <<>>
    /\ pre = [phost EXCEPT !.dl = <<>>]
    /\ nCalls = 3

(***************************************************************************)
(* C6, as claimed: the begin rule below, and as its consequence            *)
(* begin(LINE_STRIP); begin(LINE_STRIP) emits two BEGIN words while a      *)
(* repeated begin of a non-strip type emits exactly one.                   *)
(***************************************************************************)
StripPrims == {LINE_STRIP, EDGE_STRIP_R, EDGE_STRIP_L, EDGE_STRIP_A,
               EDGE_STRIP_B}

BeginRule(h0, c, h1) ==
    LET type == c.args[1]
        effective == IF h0.DlPrimitive \in StripPrims THEN 0
                     ELSE h0.DlPrimitive
    IN IF type # effective
       THEN h1 = [h0 EXCEPT !.DlPrimitive = type,
                            !.dl = <<Word("BEGIN", <<type>>)>>]
       ELSE h1 = h0

C6_BeginTwice ==
    [][(cfg.optimize /\ call'.fn = "begin")
          => /\ BeginRule([phost EXCEPT !.dl = <<>>], call', phost')
             /\ (call = call' /\ call.args[1] = LINE_STRIP)
                   => Len(phost.dl) + Len(phost'.dl) = 2
             /\ (call = call' /\ call.args[1] \in {1, 2})
                   => Len(phost.dl) + Len(phost'.dl) = 1]_vars

(***************************************************************************)
(* C6, amended: with caching enabled, begin(type) emits BEGIN(type) and    *)
(* makes type the active primitive exactly when type differs from the      *)
(* effective current primitive (0 for an active LINE_STRIP or EDGE_STRIP_*,*)
(* the active primitive otherwise), and otherwise emits nothing.  So       *)
(* begin(s); begin(s) of a strip type emits two BEGIN words, while         *)
(* begin(t); begin(t) of a non-strip type t # 0 emits one BEGIN word if t  *)
(* was not the active primitive before the first call and none if it was.  *)
(***************************************************************************)
C6_BeginRule ==
    [][(cfg.optimize /\ call'.fn = "begin")
          => /\ BeginRule([phost EXCEPT !.dl = <<>>], call', phost')
             /\ (call = call' /\ call.args[1] \in StripPrims)
                   => /\ phost.dl = <<Word("BEGIN", call.args)>>
                      /\ phost'.dl = <<Word("BEGIN", call.args)>>
             /\ (call = call' /\ call.args[1] \in {1, 2})
                   => /\ phost'.dl = <<>>
                      /\ Len(phost.dl) =
                           (IF pre.DlPrimitive = call.args[1] THEN 0 ELSE 1)]_vars

C6_Witness ==
    /\ cfg.optimize
    /\ call = [fn |-> "begin", args |-> <<EDGE_STRIP_A>>]
    /\ pre.DlPrimitive = EDGE_STRIP_A
    /\ phost.dl = <<Word("BEGIN", <<EDGE_STRIP_A>>)>>

(***************************************************************************)
(* C7, as claimed: after every call of end(), in every build, the active   *)
(* primitive is NONE.                                                      *)
(***************************************************************************)
C7_EndClearsAlways == call.fn = "end" => phost.DlPrimitive = 0

(***************************************************************************)
(* C7, amended: after a call of end() the active primitive is NONE in      *)
(* every build that emits END (explicit END emission enabled, or caching   *)
(* disabled), and there a following begin(type) with type # 0 emits        *)
(* BEGIN(type); in the build with caching enabled and explicit END         *)
(* emission disabled end() emits nothing and leaves the active primitive   *)
(* as it was, so that a following begin of that same non-strip type is     *)
(* suppressed.                                                             *)
(***************************************************************************)
C7_EndClears ==
    [][/\ call'.fn = "end" =>
            IF cfg.optimize /\ ~cfg.endPrimitive
            THEN phost' = [phost EXCEPT !.dl = <<>>]
            ELSE phost'.DlPrimitive = 0
       /\ (call.fn = "end" /\ call'.fn = "begin" /\ call'.args[1] # 0) =>
            IF cfg.optimize /\ ~cfg.endPrimitive
            THEN (phost'.dl = <<>>) <=>
                    (call'.args[1] = phost.DlPrimitive
                        /\ phost.DlPrimitive \notin StripPrims)
            ELSE phost'.dl = <<Word("BEGIN", call'.args)>>]_vars

C7_Witness ==
    /\ cfg.optimize
    /\ ~cfg.endPrimitive
    /\ call = [fn |-> "begin", args |-> <<2>>]
    /\ phost.dl = <<>>
    /\ phost.DlPrimitive = 2
    /\ nCalls = 3

MaxCoCalls == 1

InitCo == Init /\ Caching

CoObserve(d) ==
    /\ nestOk
    /\ co' = CoRun(co, phost'.dl)
    /\ depth' = depth + d
    /\ nestOk' = (depth' \in 0 .. EVE_DL_STATE_STACK_MASK)
    /\ UNCHANGED <<call, pre, run, bypass>>

CoSet(A) ==
    /\ nCalls < MaxCoCalls
    /\ A
    /\ nCalls' = nCalls + 1
    /\ CoObserve(0)

CoSave == Call_saveContext /\ UNCHANGED nCalls /\ CoObserve(1)

CoRestore == Call_restoreContext /\ UNCHANGED nCalls /\ CoObserve(-1)

NextCo ==
    \/ \E v \in ColorVals : CoSet(Call_colorRgb_ex(v))
    \/ \E v \in AlphaVals : CoSet(Call_colorA(v))
    \/ \E v \in HandleVals : CoSet(Call_bitmapHandle(v))
    \/ \E v \in CellVals : CoSet(Call_cell(v))
    \/ \E v \in PointSizeVals : CoSet(Call_pointSize(v))
    \/ \E v \in LineWidthVals : CoSet(Call_lineWidth(v))
    \/ \E v \in VertexFormatVals : CoSet(Call_vertexFormat(v))
    \/ \E v \in PaletteVals : CoSet(Call_paletteSource(v))
    \/ \E xy \in ScissorXYVals :
          CoSet(Call_scissorXY(xy[1], xy[2]))
    \/ \E wh \in ScissorSizeVals :
          CoSet(Call_scissorSize(wh[1], wh[2]))
    \/ \E v \in CoeffVals :
          CoSet(Call_bitmapTransformA(v))
    \/ \E pv \in ExtVals :
          CoSet(Call_bitmapTransformA_ex(pv[1], pv[2]))
    \/ \E v \in CoeffVals :
          CoSet(Call_bitmapTransformB(v))
    \/ \E pv \in ExtVals :
          CoSet(Call_bitmapTransformB_ex(pv[1], pv[2]))
    \/ \E v \in CoeffVals :
          CoSet(Call_bitmapTransformC(v))
    \/ \E v \in CoeffVals :
          CoSet(Call_bitmapTransformD(v))
    \/ \E pv \in ExtVals :
          CoSet(Call_bitmapTransformD_ex(pv[1], pv[2]))
    \/ \E v \in CoeffVals :
          CoSet(Call_bitmapTransformE(v))
    \/ \E pv \in ExtVals :
          CoSet(Call_bitmapTransformE_ex(pv[1], pv[2]))
    \/ \E v \in CoeffVals :
          CoSet(Call_bitmapTransformF(v))
    \/ \E pv \in ExtVals :
          CoSet(
                  Call_bitmapTransform_ex(pv[1], pv[2], 0, 0, 0, pv[2], 0))
    \/ CoSet(Call_bitmapTransform_identity)
    \/ CoSave
    \/ CoRestore

SpecCo == InitCo /\ [][NextCo]_vars

(***************************************************************************)
(* C1: in the caching build, as long as every restoreContext had a         *)
(* matching saveContext and the nesting stayed below the ring capacity,    *)
(* the active snapshot equals the context the reference coprocessor has    *)
(* in force (colour, alpha, handle, cell, point size, line width, vertex   *)
(* format, palette source, scissor position and size), and when the        *)
(* BitmapTransform flag says "identity" the coprocessor's matrix is the    *)
(* identity: no word that was suppressed was needed.                       *)
(***************************************************************************)
MirroredFields ==
    {"ColorRGB", "ColorA", "Handle", "Cell", "PointSize", "LineWidth",
     "VertexFormat", "PaletteSource", "ScissorX", "ScissorY",
     "ScissorWidth", "ScissorHeight"}

CoMatrixIsIdentity ==
    /\ co.ctx.A = <<0, 256>> /\ co.ctx.B = <<0, 0>> /\ co.ctx.C = 0
    /\ co.ctx.D = <<0, 0>> /\ co.ctx.E = <<0, 256>> /\ co.ctx.F = 0

ShadowMirrorsCo ==
    /\ \A f \in MirroredFields : EVE_DL_STATE(phost)[f] = co.ctx[f]
    /\ ~EVE_DL_STATE(phost).BitmapTransform => CoMatrixIsIdentity

MaxStackDepth == 4
MaxStackCalls == 1

StackObserve(fn, args) ==
    /\ call' = [fn |-> fn, args |-> args]
    /\ pre' = Entry
    /\ UNCHANGED <<co, nestOk, bypass>>

StackSet(fn, args, A) ==
    /\ nCalls < MaxStackCalls
    /\ A
    /\ nCalls' = nCalls + 1
    /\ run' = NoRun
    /\ UNCHANGED depth
    /\ StackObserve(fn, args)

StackSave ==
    /\ depth < MaxStackDepth
    /\ Call_saveContext
    /\ depth' = depth + 1
    /\ run' = IF run.ups >= 1 /\ run.downs = 0
              THEN [run EXCEPT !.ups = @ + 1]
              ELSE [base |-> Entry, ups |-> 1, downs |-> 0]
    /\ UNCHANGED nCalls
    /\ StackObserve("saveContext", <<>>)

StackRestore ==
    /\ depth > -MaxStackDepth
    /\ Call_restoreContext
    /\ depth' = depth - 1
    /\ run' = IF run.ups >= 1 /\ run.downs < run.ups
              THEN [run EXCEPT !.downs = @ + 1]
              ELSE NoRun
    /\ UNCHANGED nCalls
    /\ StackObserve("restoreContext", <<>>)

NextStack ==
    \/ \E v \in AlphaVals : StackSet("colorA", <<v>>, Call_colorA(v))
    \/ \E xy \in ScissorXYVals :
          StackSet("scissorXY", xy, Call_scissorXY(xy[1], xy[2]))
    \/ \E v \in CoeffVals :
          StackSet("bitmapTransformA", <<v>>, Call_bitmapTransformA(v))
    \/ StackSave
    \/ StackRestore

SpecStack == Init /\ [][NextStack]_vars

(***************************************************************************)
(* C9: after N saveContext calls followed by N restoreContext calls,       *)
(* 1 <= N <= EVE_DL_STATE_STACK_SIZE, the active snapshot and the index    *)
(* are what they were before the first saveContext.                        *)
(***************************************************************************)
C9_StackRoundTrip ==
    (run.ups >= 1 /\ run.downs = run.ups
        /\ run.ups <= EVE_DL_STATE_STACK_SIZE) =>
        /\ phost.DlStateIndex = run.base.DlStateIndex
        /\ EVE_DL_STATE(phost) = EVE_DL_STATE(run.base)

C9_Witness ==
    /\ cfg.optimize
    /\ run.ups = EVE_DL_STATE_STACK_SIZE
    /\ run.downs = run.ups
    /\ phost.DlStateIndex = 2
    /\ EVE_DL_STATE(phost).ColorA = 0

(***************************************************************************)
(* C10: every saveContext emits exactly one SAVE_CONTEXT and every         *)
(* restoreContext exactly one RESTORE_CONTEXT.  In a build with            *)
(* EVE_DL_OPTIMIZE or EVE_DL_CACHE_SCISSOR the index stays within          *)
(* 0 .. EVE_DL_STATE_STACK_SIZE - 1 and equals depth modulo the size: a    *)
(* save from the last slot lands in slot 0, a restore from slot 0 in the   *)
(* last slot.  saveContext copies the current snapshot into the slot it    *)
(* moves to and touches no other slot; restoreContext changes no slot.     *)
(***************************************************************************)
RingModulo(n) ==
    CHOOSE i \in 0 .. EVE_DL_STATE_STACK_SIZE - 1 :
        \E k \in -(MaxStackDepth + 1) .. (MaxStackDepth + 1) :
            n = i + k * EVE_DL_STATE_STACK_SIZE

C10_SaveRestoreLockstep ==
    LET stacked == cfg.optimize \/ cfg.cacheScissor
        last == EVE_DL_STATE_STACK_SIZE - 1
    IN /\ call.fn = "saveContext" =>
            /\ phost.dl = <<Word("SAVE_CONTEXT", <<>>)>>
            /\ stacked =>
                 /\ phost.DlStateIndex =
                      (IF pre.DlStateIndex = last THEN 0
                       ELSE pre.DlStateIndex + 1)
                 /\ phost.DlState =
                      [pre.DlState EXCEPT ![phost.DlStateIndex] =
                                              pre.DlState[pre.DlStateIndex]]
       /\ call.fn = "restoreContext" =>
            /\ phost.dl = <<Word("RESTORE_CONTEXT", <<>>)>>
            /\ phost.DlState = pre.DlState
            /\ stacked =>
                 phost.DlStateIndex =
                      (IF pre.DlStateIndex = 0 THEN last
                       ELSE pre.DlStateIndex - 1)
       /\ stacked =>
            /\ phost.DlStateIndex \in 0 .. last
            /\ phost.DlStateIndex = RingModulo(depth)

C10_Witness ==
    /\ ~cfg.optimize
    /\ cfg.cacheScissor
    /\ call.fn = "restoreContext"
    /\ depth = -1
    /\ phost.DlStateIndex = EVE_DL_STATE_STACK_SIZE - 1
    /\ pre.DlStateIndex = 0
    /\ EVE_DL_STATE(pre).ScissorX = 1

(***************************************************************************)
(* Vertices.  VERTEX2F packs each coordinate into a 15-bit field; x >> 1   *)
(* on an int16_t is the arithmetic shift (floor of x / 2).                 *)
(***************************************************************************)
EVE_VERTEX2F_MIN == -16384
EVE_VERTEX2F_MAX == 16383

VERTEX2F(x, y) == Word("VERTEX2F", <<x % 32768, y % 32768>>)

ShiftRight1(x) == IF x >= 0 THEN x \div 2 ELSE -((1 - x) \div 2)

EVE_CoDl_vertex2f(h, x, y) == EVE_CoCmd_dl(h, VERTEX2F(x, y))

EVE_CoDl_vertex2f_4(h, x, y) ==
    IF x > EVE_VERTEX2F_MAX \/ y > EVE_VERTEX2F_MAX
    THEN EVE_CoDl_vertex2f(EVE_CoDl_vertexFormat(h, 3),
                           ShiftRight1(x), ShiftRight1(y))
    ELSE EVE_CoDl_vertex2f(EVE_CoDl_vertexFormat(h, 4), x, y)

\* Mutant: the format is taken for granted and never set.
Mut_vertex2f_2_noFormat(h, x, y) == EVE_CoDl_vertex2f(h, x, y)

EVE_CoDl_vertex2f_2(h, x, y) ==
    EVE_CoDl_vertex2f(EVE_CoDl_vertexFormat(h, 2), x, y)

EVE_CoDl_vertex2f_0(h, x, y) ==
    EVE_CoDl_vertex2f(EVE_CoDl_vertexFormat(h, 0), x, y)

Call_vertex2f_4(x, y) == Do(EVE_CoDl_vertex2f_4(Entry, x, y))
Call_vertex2f_2(x, y) == Do(EVE_CoDl_vertex2f_2(Entry, x, y))
Call_vertex2f_0(x, y) == Do(EVE_CoDl_vertex2f_0(Entry, x, y))

\* int16_t pairs on both sides of both limits.
VertexCoords == {<<100, 100>>, <<20000, 0>>, <<-3, 16384>>,
                 <<16383, -16384>>, <<-20000, 0>>}

(***************************************************************************)
(* SpecVertex: a client that draws vertices at the three precisions and    *)
(* saves and restores contexts, up to MaxVertexCalls calls in all, with    *)
(* the reference coprocessor executing the words of every call.  nestOk    *)
(* says that so far every restoreContext had a matching saveContext and    *)
(* the nesting stayed below EVE_DL_STATE_STACK_SIZE.                       *)
(***************************************************************************)
MaxVertexCalls == 4

VertexStep(fn, args, A, d) ==
    /\ nCalls < MaxVertexCalls
    /\ A
    /\ call' = [fn |-> fn, args |-> args]
    /\ nCalls' = nCalls + 1
    /\ pre' = Entry
    /\ co' = CoRun(co, phost'.dl)
    /\ depth' = depth + d
    /\ nestOk' = (nestOk /\ depth' \in 0 .. EVE_DL_STATE_STACK_MASK)
    /\ UNCHANGED <<run, bypass>>

NextVertex ==
    \/ \E xy \in VertexCoords :
          VertexStep("vertex2f_4", xy, Call_vertex2f_4(xy[1], xy[2]), 0)
    \/ \E xy \in VertexCoords :
          VertexStep("vertex2f_2", xy, Call_vertex2f_2(xy[1], xy[2]), 0)
    \/ \E xy \in VertexCoords :
          VertexStep("vertex2f_0", xy, Call_vertex2f_0(xy[1], xy[2]), 0)
    \/ VertexStep("saveContext", <<>>, Call_saveContext, 1)
    \/ VertexStep("restoreContext", <<>>, Call_restoreContext, -1)

SpecVertex == Init /\ [][NextVertex]_vars

(***************************************************************************)
(* C11, as claimed: vertex2f_4(x, y) falls back to vertex format 3 with    *)
(* both coordinates shifted right by one whenever either coordinate lies   *)
(* outside EVE_VERTEX2F_MIN .. EVE_VERTEX2F_MAX, above or below, and       *)
(* otherwise selects format 4 and emits the coordinates as they are.       *)
(* Selecting format f means calling the vertexFormat setter with f: any    *)
(* VERTEX_FORMAT word of the call carries f, and with EVE_DL_OPTIMIZE the  *)
(* active snapshot holds f afterwards.                                     *)
(***************************************************************************)
InVertexRange(v) == EVE_VERTEX2F_MIN <= v /\ v <= EVE_VERTEX2F_MAX

Selects(h0, h1, f, x, y) ==
    /\ h1.dl \in {<<VERTEX2F(x, y)>>,
                  <<Word("VERTEX_FORMAT", <<f>>), VERTEX2F(x, y)>>}
    /\ cfg.optimize => EVE_DL_STATE(h1).VertexFormat = f
    /\ (cfg.optimize /\ EVE_DL_STATE(h0).VertexFormat # f) => Len(h1.dl) = 2
    /\ ~cfg.optimize => Len(h1.dl) = 2

C11_VertexFallback ==
    call.fn = "vertex2f_4" =>
        LET x == call.args[1]
            y == call.args[2]
        IN IF InVertexRange(x) /\ InVertexRange(y)
           THEN Selects(pre, phost, 4, x, y)
           ELSE Selects(pre, phost, 3, ShiftRight1(x), ShiftRight1(y))

(***************************************************************************)
(* SpecRaw: the caching build composed with the reference coprocessor,     *)
(* with a client that also writes state-changing words straight through    *)
(* EVE_CoCmd_dl, behind the encoder's back, but only inside a saved        *)
(* context (depth >= 1).  bypass is the lowest nesting depth at which      *)
(* such a raw word was written and whose saveContext has not been matched  *)
(* by its restoreContext yet, 0 if there is none.  The client makes up to  *)
(* MaxRawCalls setter calls and raw writes, saves and restores freely,     *)
(* and is followed until it first breaks the nesting discipline.           *)
(***************************************************************************)
MaxRawCalls == 2

RawWords == {Word("COLOR_A", <<0>>), Word("SCISSOR_XY", <<1, 1>>),
             Word("BITMAP_TRANSFORM_A", <<0>>)}

RawObserve(d) ==
    /\ nestOk
    /\ co' = CoRun(co, phost'.dl)
    /\ depth' = depth + d
    /\ nestOk' = (depth' \in 0 .. EVE_DL_STATE_STACK_MASK)
    /\ UNCHANGED <<pre, run>>

RawSet(A) ==
    /\ nCalls < MaxRawCalls
    /\ A
    /\ nCalls' = nCalls + 1
    /\ UNCHANGED <<call, bypass>>
    /\ RawObserve(0)

RawWrite(w) ==
    /\ nCalls < MaxRawCalls
    /\ depth >= 1
    /\ Do(EVE_CoCmd_dl(Entry, w))
    /\ call' = [fn |-> "EVE_CoCmd_dl", args |-> <<w>>]
    /\ nCalls' = nCalls + 1
    /\ bypass' = IF bypass = 0 \/ depth < bypass THEN depth ELSE bypass
    /\ RawObserve(0)

RawSave ==
    /\ Call_saveContext
    /\ UNCHANGED <<call, nCalls, bypass>>
    /\ RawObserve(1)

RawRestore ==
    /\ Call_restoreContext
    /\ bypass' = IF bypass > depth - 1 THEN 0 ELSE bypass
    /\ UNCHANGED <<call, nCalls>>
    /\ RawObserve(-1)

NextRaw ==
    \/ \E v \in AlphaVals : RawSet(Call_colorA(v))
    \/ \E xy \in ScissorXYVals : RawSet(Call_scissorXY(xy[1], xy[2]))
    \/ \E v \in CoeffVals : RawSet(Call_bitmapTransformA(v))
    \/ RawSet(Call_bitmapTransform_identity)
    \/ \E w \in RawWords : RawWrite(w)
    \/ RawSave
    \/ RawRestore

SpecRaw == InitCo /\ [][NextRaw]_vars

(***************************************************************************)
(* C12: when raw words were written only inside saved contexts and every   *)
(* such context has been left through its matching restoreContext (the     *)
(* nesting having stayed below the ring capacity), the active snapshot     *)
(* again equals the context in force on the reference coprocessor, and     *)
(* the identity flag again implies an identity matrix; so a setter called  *)
(* from there on is suppressed only if its value is really in force.       *)
(***************************************************************************)
C12_RawBypassResync == (Caching /\ nestOk /\ bypass = 0) => ShadowMirrorsCo

C12_Witness ==
    /\ Caching /\ nestOk /\ bypass = 0
    /\ depth = 1
    /\ call = [fn |-> "EVE_CoCmd_dl", args |-> <<Word("COLOR_A", <<0>>)>>]
    /\ phost.dl = <<Word("RESTORE_CONTEXT", <<>>)>>
    /\ EVE_DL_STATE(phost).ColorA = 255
    /\ co.ctx.ColorA = 255

(***************************************************************************)
(* C13, as claimed: in every build with EVE_DL_CACHE_SCISSOR, with or      *)
(* without EVE_DL_OPTIMIZE, scissorXY / scissorSize called with the        *)
(* values the active snapshot holds emits nothing.                         *)
(***************************************************************************)
C13_ScissorSwitchAlone ==
    (cfg.cacheScissor /\ call.fn \in ScissorFns
        /\ call.args = Held(pre, call.fn)) => phost.dl = <<>>

(***************************************************************************)
(* C13, amended: EVE_DL_CACHE_SCISSOR alone makes scissorXY / scissorSize  *)
(* keep the scissor fields of the active snapshot; the suppression needs   *)
(* EVE_DL_OPTIMIZE as well.  With both switches a call with the held       *)
(* values emits nothing and changes nothing; with EVE_DL_CACHE_SCISSOR     *)
(* but without EVE_DL_OPTIMIZE every call emits its one word, also with    *)
(* the held values, and stores its arguments.                              *)
(***************************************************************************)
C13_ScissorNeedsBoth ==
    (cfg.cacheScissor /\ call.fn \in ScissorFns) =>
        IF cfg.optimize /\ call.args = Held(pre, call.fn)
        THEN phost = pre
        ELSE phost = [WithHeld(pre, call.fn, call.args) EXCEPT
                        !.dl = <<Word(OpcodeOf(call.fn), call.args)>>]

C13_Witness ==
    /\ ~cfg.optimize
    /\ cfg.cacheScissor
    /\ call = [fn |-> "scissorXY", args |-> <<1, 1>>]
    /\ Held(pre, "scissorXY") = <<1, 1>>
    /\ phost.dl = <<Word("SCISSOR_XY", <<1, 1>>)>>

(***************************************************************************)
(* C14: without EVE_DL_OPTIMIZE every call of a cacheable setter and of    *)
(* begin emits exactly its one word and bitmapTransform_identity its six,  *)
(* whatever was called before and whatever EVE_DL_CACHE_SCISSOR is.        *)
(***************************************************************************)
C14_NoCacheAlwaysEmits ==
    ~cfg.optimize =>
        /\ call.fn \in CacheableFns =>
              phost.dl = <<Word(OpcodeOf(call.fn), Requested(call))>>
        /\ call.fn = "begin" => phost.dl = <<Word("BEGIN", call.args)>>
        /\ call.fn = "bitmapTransform_identity" => phost.dl = IdentityWords

C14_Witness ==
    /\ ~cfg.optimize
    /\ cfg.cacheScissor
    /\ call = [fn |-> "begin", args |-> <<2>>]
    /\ phost.dl = <<Word("BEGIN", <<2>>)>>
    /\ nCalls = 3
    /\ Held(phost, "scissorSize") = <<1, 1>>

(***************************************************************************)
(* Operations without cache: each hands its instruction(s) to EVE_CoCmd_dl *)
(* and touches nothing else.  x >> n on an unsigned value is x \div 2^n.   *)
(***************************************************************************)
EVE_CoDl_display(h) == EVE_CoCmd_dl(h, Word("DISPLAY", <<>>))

\* Mutant: the handle and cell a VERTEX2II carries are taken into the cache.
Mut_vertex2ii_cachesHandle(h, x, y, handle, cell) ==
    LET e == EVE_CoCmd_dl(h, Word("VERTEX2II", <<x, y, handle, cell>>)) IN
    StoreState(StoreState(e, "Handle", handle), "Cell", cell)

EVE_CoDl_vertex2ii(h, x, y, handle, cell) ==
    EVE_CoCmd_dl(h, Word("VERTEX2II", <<x, y, handle, cell>>))

EVE_CoDl_bitmapSource(h, addr) ==
    EVE_CoCmd_dl(h, Word("BITMAP_SOURCE", <<addr>>))

EVE_CoDl_clearColorRgb_ex(h, c) ==
    EVE_CoCmd_dl(h, Word("CLEAR_COLOR_RGB", <<Rgb24(c)>>))

EVE_CoDl_clearColorRgb(h, r, g, b) ==
    EVE_CoCmd_dl(h, Word("CLEAR_COLOR_RGB", <<r * 65536 + g * 256 + b>>))

EVE_CoDl_clearColorA(h, alpha) ==
    EVE_CoCmd_dl(h, Word("CLEAR_COLOR_A", <<alpha>>))

EVE_CoDl_tag(h, s) == EVE_CoCmd_dl(h, Word("TAG", <<s>>))

\* Mutant: the base instruction is written before its high-bits extension.
Mut_bitmapLayout_baseFirst(h, format, linestride, height) ==
    LET e == EVE_CoCmd_dl(h, Word("BITMAP_LAYOUT",
                                  <<format, linestride, height>>))
    IN EVE_CoCmd_dl(e, Word("BITMAP_LAYOUT_H",
                            <<linestride \div 1024, height \div 512>>))

EVE_CoDl_bitmapLayout(h, format, linestride, height) ==
    LET e == EVE_CoCmd_dl(h, Word("BITMAP_LAYOUT_H",
                                  <<linestride \div 1024, height \div 512>>))
    IN EVE_CoCmd_dl(e, Word("BITMAP_LAYOUT", <<format, linestride, height>>))

EVE_CoDl_bitmapSize(h, filter, wrapx, wrapy, width, height) ==
    LET e == EVE_CoCmd_dl(h, Word("BITMAP_SIZE_H",
                                  <<width \div 512, height \div 512>>))
    IN EVE_CoCmd_dl(e, Word("BITMAP_SIZE",
                            <<filter, wrapx, wrapy, width, height>>))

EVE_CoDl_alphaFunc(h, func, ref) ==
    EVE_CoCmd_dl(h, Word("ALPHA_FUNC", <<func, ref>>))

EVE_CoDl_stencilFunc(h, func, ref, mask) ==
    EVE_CoCmd_dl(h, Word("STENCIL_FUNC", <<func, ref, mask>>))

EVE_CoDl_blendFunc(h, src, dst) ==
    EVE_CoCmd_dl(h, Word("BLEND_FUNC", <<src, dst>>))

EVE_CoDl_stencilOp(h, sfail, spass) ==
    EVE_CoCmd_dl(h, Word("STENCIL_OP", <<sfail, spass>>))

EVE_CoDl_clearStencil(h, s) == EVE_CoCmd_dl(h, Word("CLEAR_STENCIL", <<s>>))

EVE_CoDl_clearTag(h, s) == EVE_CoCmd_dl(h, Word("CLEAR_TAG", <<s>>))

EVE_CoDl_stencilMask(h, mask) ==
    EVE_CoCmd_dl(h, Word("STENCIL_MASK", <<mask>>))

EVE_CoDl_tagMask(h, mask) == EVE_CoCmd_dl(h, Word("TAG_MASK", <<mask>>))

EVE_CoDl_call(h, dest) == EVE_CoCmd_dl(h, Word("CALL", <<dest>>))

EVE_CoDl_jump(h, dest) == EVE_CoCmd_dl(h, Word("JUMP", <<dest>>))

EVE_CoDl_colorMask(h, r, g, b, a) ==
    EVE_CoCmd_dl(h, Word("COLOR_MASK", <<r, g, b, a>>))

EVE_CoDl_return(h) == EVE_CoCmd_dl(h, Word("RETURN", <<>>))

EVE_CoDl_macro(h, m) == EVE_CoCmd_dl(h, Word("MACRO", <<m>>))

EVE_CoDl_clear(h, c, s, t) == EVE_CoCmd_dl(h, Word("CLEAR", <<c, s, t>>))

(***************************************************************************)
(* SpecPlain: a client that makes up to MaxPlainCalls calls of the         *)
(* operations without cache, of bitmapLayout / bitmapSize, and of a few    *)
(* state-changing operations in between.  pre is the host context on       *)
(* entry to the latest call; run.ups counts how many times in a row that   *)
(* call has now been made with the same arguments, run.base being the      *)
(* host context on entry to the first of them.                             *)
(***************************************************************************)
MaxPlainCalls == 2

PlainStep(fn, args, A) ==
    /\ nCalls < MaxPlainCalls
    /\ A
    /\ call' = [fn |-> fn, args |-> args]
    /\ nCalls' = nCalls + 1
    /\ pre' = Entry
    /\ run' = IF call' = call
              THEN [run EXCEPT !.ups = @ + 1]
              ELSE [base |-> Entry, ups |-> 1, downs |-> 0]
    /\ UNCHANGED <<co, depth, nestOk, bypass>>

LayoutVals == {<<7, 64, 32>>, <<7, 2048, 1024>>}
SizeVals == {<<0, 0, 0, 64, 32>>, <<1, 1, 0, 512, 600>>}

NextPlain ==
    \/ PlainStep("display", <<>>, Do(EVE_CoDl_display(Entry)))
    \/ PlainStep("vertex2f", <<100, -3>>, Do(EVE_CoDl_vertex2f(Entry, 100, -3)))
    \/ \E hc \in {<<0, 0>>, <<1, 1>>} :
          PlainStep("vertex2ii", <<10, 20, hc[1], hc[2]>>,
                    Do(EVE_CoDl_vertex2ii(Entry, 10, 20, hc[1], hc[2])))
    \/ PlainStep("bitmapSource", <<4096>>, Do(EVE_CoDl_bitmapSource(Entry, 4096)))
    \/ PlainStep("clearColorRgb_ex", <<16777217>>,
                 Do(EVE_CoDl_clearColorRgb_ex(Entry, 16777217)))
    \/ PlainStep("clearColorRgb", <<1, 2, 3>>,
                 Do(EVE_CoDl_clearColorRgb(Entry, 1, 2, 3)))
    \/ \E a \in AlphaVals :
          PlainStep("clearColorA", <<a>>, Do(EVE_CoDl_clearColorA(Entry, a)))
    \/ \E s \in {255, 7} : PlainStep("tag", <<s>>, Do(EVE_CoDl_tag(Entry, s)))
    \/ \E v \in LayoutVals :
          PlainStep("bitmapLayout", v,
                    Do(EVE_CoDl_bitmapLayout(Entry, v[1], v[2], v[3])))
    \/ \E v \in SizeVals :
          PlainStep("bitmapSize", v,
                    Do(EVE_CoDl_bitmapSize(Entry, v[1], v[2], v[3], v[4], v[5])))
    \/ PlainStep("alphaFunc", <<7, 0>>, Do(EVE_CoDl_alphaFunc(Entry, 7, 0)))
    \/ PlainStep("stencilFunc", <<7, 0, 255>>,
                 Do(EVE_CoDl_stencilFunc(Entry, 7, 0, 255)))
    \/ PlainStep("blendFunc", <<2, 4>>, Do(EVE_CoDl_blendFunc(Entry, 2, 4)))
    \/ PlainStep("stencilOp", <<1, 1>>, Do(EVE_CoDl_stencilOp(Entry, 1, 1)))
    \/ PlainStep("clearStencil", <<0>>, Do(EVE_CoDl_clearStencil(Entry, 0)))
    \/ PlainStep("clearTag", <<0>>, Do(EVE_CoDl_clearTag(Entry, 0)))
    \/ PlainStep("stencilMask", <<255>>, Do(EVE_CoDl_stencilMask(Entry, 255)))
    \/ PlainStep("tagMask", <<1>>, Do(EVE_CoDl_tagMask(Entry, 1)))
    \/ PlainStep("call", <<12>>, Do(EVE_CoDl_call(Entry, 12)))
    \/ PlainStep("jump", <<12>>, Do(EVE_CoDl_jump(Entry, 12)))
    \/ PlainStep("colorMask", <<1, 1, 1, 0>>,
                 Do(EVE_CoDl_colorMask(Entry, 1, 1, 1, 0)))
    \/ PlainStep("return", <<>>, Do(EVE_CoDl_return(Entry)))
    \/ PlainStep("macro", <<1>>, Do(EVE_CoDl_macro(Entry, 1)))
    \/ PlainStep("clear", <<1, 1, 1>>, Do(EVE_CoDl_clear(Entry, 1, 1, 1)))
    \/ PlainStep("colorA", <<0>>, Call_colorA(0))
    \/ PlainStep("bitmapHandle", <<1>>, Call_bitmapHandle(1))
    \/ PlainStep("begin", <<1>>, Call_begin(1))
    \/ PlainStep("saveContext", <<>>, Call_saveContext)

SpecPlain == Init /\ [][NextPlain]_vars

(***************************************************************************)
(* C15: bitmapLayout and bitmapSize emit, on every call and in every       *)
(* build, exactly two words: first BITMAP_LAYOUT_H(linestride >> 10,       *)
(* height >> 9) resp. BITMAP_SIZE_H(width >> 9, height >> 9), then         *)
(* BITMAP_LAYOUT resp. BITMAP_SIZE with the full parameters; nothing else  *)
(* of the host context changes.                                            *)
(***************************************************************************)
C15_HighBitsFirst ==
    LET a == call.args IN
    /\ call.fn = "bitmapLayout" =>
          phost = [pre EXCEPT !.dl =
                      << Word("BITMAP_LAYOUT_H", <<a[2] \div 1024, a[3] \div 512>>),
                         Word("BITMAP_LAYOUT", <<a[1], a[2], a[3]>>) >>]
    /\ call.fn = "bitmapSize" =>
          phost = [pre EXCEPT !.dl =
                      << Word("BITMAP_SIZE_H", <<a[4] \div 512, a[5] \div 512>>),
                         Word("BITMAP_SIZE", <<a[1], a[2], a[3], a[4], a[5]>>) >>]

C15_Witness ==
    /\ cfg.optimize
    /\ call = [fn |-> "bitmapLayout", args |-> <<7, 2048, 1024>>]
    /\ run.ups = 2
    /\ phost.dl[1] = Word("BITMAP_LAYOUT_H", <<2, 2>>)
    /\ Len(phost.dl) = 2

(***************************************************************************)
(* C16: an operation without cache emits exactly one word on every call,   *)
(* also when it is called again with the same arguments, and leaves the    *)
(* snapshots, the index and the active primitive as they were.             *)
(***************************************************************************)
NonCacheableFns ==
    {"clear", "clearColorRgb", "clearColorA", "clearStencil", "clearTag",
     "blendFunc", "stencilFunc", "stencilOp", "stencilMask", "tag", "tagMask",
     "alphaFunc", "colorMask", "vertex2f", "vertex2ii", "bitmapSource",
     "call", "jump", "macro", "return", "display"}

PlainOpcode(fn) ==
    CASE fn = "clear" -> "CLEAR"
      [] fn = "clearColorRgb" -> "CLEAR_COLOR_RGB"
      [] fn = "clearColorA" -> "CLEAR_COLOR_A"
      [] fn = "clearStencil" -> "CLEAR_STENCIL"
      [] fn = "clearTag" -> "CLEAR_TAG"
      [] fn = "blendFunc" -> "BLEND_FUNC"
      [] fn = "stencilFunc" -> "STENCIL_FUNC"
      [] fn = "stencilOp" -> "STENCIL_OP"
      [] fn = "stencilMask" -> "STENCIL_MASK"
      [] fn = "tag" -> "TAG"
      [] fn = "tagMask" -> "TAG_MASK"
      [] fn = "alphaFunc" -> "ALPHA_FUNC"
      [] fn = "colorMask" -> "COLOR_MASK"
      [] fn = "vertex2f" -> "VERTEX2F"
      [] fn = "vertex2ii" -> "VERTEX2II"
      [] fn = "bitmapSource" -> "BITMAP_SOURCE"
      [] fn = "call" -> "CALL"
      [] fn = "jump" -> "JUMP"
      [] fn = "macro" -> "MACRO"
      [] fn = "return" -> "RETURN"
      [] fn = "display" -> "DISPLAY"

C16_NonCacheableAlwaysEmit ==
    call.fn \in NonCacheableFns =>
        /\ Len(phost.dl) = 1
        /\ phost.dl[1].op = PlainOpcode(call.fn)
        /\ [phost EXCEPT !.dl = <<>>] = pre
        /\ [phost EXCEPT !.dl = <<>>] = run.base

C16_Witness ==
    /\ cfg.optimize
    /\ call = [fn |-> "tag", args |-> <<7>>]
    /\ run.ups = 2
    /\ phost.dl = <<Word("TAG", <<7>>)>>

(***************************************************************************)
(* colorArgb_ex: alpha in bits 31:24, RGB in bits 23:0 of a uint32_t; the  *)
(* uint8_t alpha parameter receives c >> 24.                               *)
(***************************************************************************)
\* Mutant: the alpha is taken from the low byte.
Mut_colorArgb_ex_lowByte(h, c) ==
    EVE_CoDl_colorA(EVE_CoDl_colorRgb_ex(h, c), c % 256)

EVE_CoDl_colorArgb_ex(h, c) ==
    EVE_CoDl_colorA(EVE_CoDl_colorRgb_ex(h, c), c \div 16777216)

Call_colorArgb_ex(c) == Do(EVE_CoDl_colorArgb_ex(Entry, c))

\* 0x00FFFFFF, 0x01FFFFFF, 0x7F000001, 0x01000001, 0x00000001
ArgbVals == {16777215, 33554431, 2130706433, 16777217, 1}

(***************************************************************************)
(* SpecColor: a client that sets colours, through colorArgb_ex,            *)
(* colorRgb_ex and colorA, and saves and restores contexts, up to          *)
(* MaxColorCalls calls in all; pre is the host context on entry to the     *)
(* latest call.                                                            *)
(***************************************************************************)
MaxColorCalls == 3

ColorStep(fn, args, A) ==
    /\ nCalls < MaxColorCalls
    /\ A
    /\ call' = [fn |-> fn, args |-> args]
    /\ nCalls' = nCalls + 1
    /\ pre' = Entry
    /\ UNCHANGED <<co, depth, nestOk, run, bypass>>

NextColor ==
    \/ \E c \in ArgbVals : ColorStep("colorArgb_ex", <<c>>, Call_colorArgb_ex(c))
    \/ \E c \in ArgbVals : ColorStep("colorRgb_ex", <<c>>, Call_colorRgb_ex(c))
    \/ \E a \in AlphaVals : ColorStep("colorA", <<a>>, Call_colorA(a))
    \/ ColorStep("saveContext", <<>>, Call_saveContext)
    \/ ColorStep("restoreContext", <<>>, Call_restoreContext)

SpecColor == Init /\ [][NextColor]_vars

(***************************************************************************)
(* C17: with caching enabled, colorArgb_ex(c) emits COLOR_RGB exactly when *)
(* c & 0xFFFFFF differs from the active ColorRGB and COLOR_A exactly when  *)
(* c >> 24 differs from the active ColorA, COLOR_RGB first, and leaves     *)
(* ColorRGB = c & 0xFFFFFF and ColorA = c >> 24.  colorRgb_ex leaves       *)
(* ColorRGB = c & 0xFFFFFF, a 24-bit value, and never changes ColorA; two  *)
(* colorRgb_ex calls in a row whose arguments differ only in bits 31:24    *)
(* emit at most one word between them.                                     *)
(***************************************************************************)
C17_ColorSplit ==
    [][cfg.optimize =>
         LET c == call'.args[1]
             rgb == c % 16777216
             alpha == c \div 16777216
             old == EVE_DL_STATE(pre')
             new == EVE_DL_STATE(phost')
         IN /\ call'.fn = "colorArgb_ex" =>
                 /\ phost'.dl =
                       (IF rgb # old.ColorRGB
                        THEN <<Word("COLOR_RGB", <<rgb>>)>> ELSE <<>>)
                       \o (IF alpha # old.ColorA
                           THEN <<Word("COLOR_A", <<alpha>>)>> ELSE <<>>)
                 /\ new = [old EXCEPT !.ColorRGB = rgb, !.ColorA = alpha]
            /\ call'.fn = "colorRgb_ex" =>
                 /\ new = [old EXCEPT !.ColorRGB = rgb]
                 /\ new.ColorRGB \in 0 .. 16777215
                 /\ (call.fn = "colorRgb_ex" /\ call.args # call'.args
                       /\ call.args[1] % 16777216 = rgb)
                      => /\ Len(phost.dl) + Len(phost'.dl) <= 1
                         /\ phost'.dl = <<>>
                         /\ new.ColorA = EVE_DL_STATE(pre).ColorA]_vars

C17_Witness ==
    /\ cfg.optimize
    /\ call = [fn |-> "colorArgb_ex", args |-> <<2130706433>>]
    /\ EVE_DL_STATE(pre).ColorRGB = 1
    /\ EVE_DL_STATE(pre).ColorA = 1
    /\ phost.dl = <<Word("COLOR_A", <<127>>)>>
    /\ EVE_DL_STATE(phost).ColorRGB = 1

(***************************************************************************)
(* C18: with caching enabled, vertex2f_N(x, y) for N = 0, 2 leaves the     *)
(* active VertexFormat at N and emits VERTEX2F(x, y), coordinates as       *)
(* given, as its last word, preceded by VERTEX_FORMAT(N) exactly when the  *)
(* active VertexFormat was not N; a further call at the same precision     *)
(* emits the VERTEX2F word alone.  In every build, as long as the save /   *)
(* restore nesting stays within the ring, the format in force on the       *)
(* reference coprocessor after the words of a vertex2f_0 / _2 / _4 call    *)
(* have executed (VERTEX2F, the last of them, leaves it alone) is the      *)
(* precision that call selected.                                           *)
(***************************************************************************)
PrecisionOf(c) ==
    CASE c.fn = "vertex2f_0" -> 0
      [] c.fn = "vertex2f_2" -> 2
      [] c.fn = "vertex2f_4" ->
           IF c.args[1] > EVE_VERTEX2F_MAX \/ c.args[2] > EVE_VERTEX2F_MAX
           THEN 3 ELSE 4

C18_VertexPrecision ==
    [][LET c == call'
           vertexFns == {"vertex2f_0", "vertex2f_2", "vertex2f_4"}
       IN /\ (cfg.optimize /\ c.fn \in {"vertex2f_0", "vertex2f_2"}) =>
               /\ Selects(pre', phost', PrecisionOf(c), c.args[1], c.args[2])
               /\ phost' = [StoreState(pre', "VertexFormat", PrecisionOf(c))
                               EXCEPT !.dl = phost'.dl]
               /\ call.fn = c.fn =>
                     phost'.dl = <<VERTEX2F(c.args[1], c.args[2])>>
          /\ (c.fn \in vertexFns /\ nestOk') =>
               /\ co'.ctx.VertexFormat = PrecisionOf(c)
               /\ phost'.dl[Len(phost'.dl)].op = "VERTEX2F"]_vars

C18_Witness ==
    /\ cfg.optimize
    /\ nestOk
    /\ depth = 1
    /\ call = [fn |-> "vertex2f_2", args |-> <<-3, 16384>>]
    /\ EVE_DL_STATE(pre).VertexFormat = 2
    /\ phost.dl = <<VERTEX2F(-3, 16384)>>
    /\ co.ctx.VertexFormat = 2
    /\ phost.DlState[0].VertexFormat = 4

(***************************************************************************)
(* SpecNest: a client that nests saveContext / restoreContext, with up to  *)
(* MaxNestCalls cached setter calls anywhere in between.  depth counts     *)
(* saveContext minus restoreContext calls since the reset (one unmatched   *)
(* restoreContext is allowed, so that a sequence may start at the last     *)
(* slot of the ring).  run follows the outermost open sequence: run.base   *)
(* is the host context on entry to the saveContext that opened it, run.ups *)
(* its current nesting depth (0 once its matching restoreContext has been  *)
(* called) and run.downs the deepest nesting it reached.                   *)
(***************************************************************************)
MaxNestDepth == 3
MaxNestCalls == 2

NestObserve(fn, args) ==
    /\ call' = [fn |-> fn, args |-> args]
    /\ pre' = Entry
    /\ UNCHANGED <<co, nestOk, bypass>>

NestSet(fn, args, A) ==
    /\ nCalls < MaxNestCalls
    /\ A
    /\ nCalls' = nCalls + 1
    /\ UNCHANGED <<depth, run>>
    /\ NestObserve(fn, args)

NestSave ==
    /\ depth < MaxNestDepth
    /\ Call_saveContext
    /\ depth' = depth + 1
    /\ run' = IF run.ups = 0
              THEN [base |-> Entry, ups |-> 1, downs |-> 1]
              ELSE [run EXCEPT !.ups = @ + 1,
                               !.downs = IF run.ups + 1 > @
                                         THEN run.ups + 1 ELSE @]
    /\ UNCHANGED nCalls
    /\ NestObserve("saveContext", <<>>)

NestRestore ==
    /\ depth > -1
    /\ Call_restoreContext
    /\ depth' = depth - 1
    /\ run' = IF run.ups = 0 THEN NoRun ELSE [run EXCEPT !.ups = @ - 1]
    /\ UNCHANGED nCalls
    /\ NestObserve("restoreContext", <<>>)

NextNest ==
    \/ \E v \in AlphaVals : NestSet("colorA", <<v>>, Call_colorA(v))
    \/ NestSet("scissorXY", <<1, 1>>, Call_scissorXY(1, 1))
    \/ NestSave
    \/ NestRestore

SpecNest == Init /\ [][NextNest]_vars

(***************************************************************************)
(* C19: when the restoreContext matching the first saveContext of a        *)
(* properly nested sequence has been called, the nesting inside the        *)
(* sequence having stayed at or below EVE_DL_STATE_STACK_SIZE - 1, the     *)
(* index and the active snapshot are what they were just before that       *)
(* first saveContext, whatever cached setters were called inside; and      *)
(* with caching enabled a setter called next is suppressed exactly when    *)
(* its value is the one held before the saveContext, not the one set       *)
(* inside the saved context.                                               *)
(***************************************************************************)
SequenceClosed(c, r) ==
    /\ c.fn = "restoreContext"
    /\ r.ups = 0
    /\ r.downs \in 1 .. EVE_DL_STATE_STACK_SIZE - 1

C19_BalancedSaveRestore ==
    [][/\ SequenceClosed(call', run') =>
            /\ phost'.DlStateIndex = run'.base.DlStateIndex
            /\ EVE_DL_STATE(phost') = EVE_DL_STATE(run'.base)
       /\ (SequenceClosed(call, run) /\ call'.fn \in CacheableFns
              /\ CacheOn(call'.fn)) =>
            ((phost'.dl = <<>>)
                <=> Requested(call') = Held(run.base, call'.fn))]_vars

C19_Witness ==
    /\ Caching
    /\ SequenceClosed(call, run)
    /\ run.downs = EVE_DL_STATE_STACK_SIZE - 1
    /\ run.base.DlStateIndex = EVE_DL_STATE_STACK_SIZE - 1
    /\ EVE_DL_STATE(phost).ColorA = 255
    /\ phost.DlState[0].ColorA = 0
    /\ phost.DlState[1].ScissorX = 1

(***************************************************************************)
(* SpecPrim: a client that begins and ends primitives inside and outside   *)
(* properly nested saved contexts, up to MaxPrimCalls calls in all.        *)
(* depth counts the open saved contexts.  run follows the latest BEGIN     *)
(* word that was emitted and not ended since: run.downs is its type,       *)
(* run.ups the depth it was emitted at and run.base the host context on    *)
(* entry to that begin call.                                               *)
(***************************************************************************)
MaxPrimCalls == 4

PrimStep(fn, args, A, d) ==
    /\ nCalls < MaxPrimCalls
    /\ depth + d \in 0 .. EVE_DL_STATE_STACK_MASK
    /\ A
    /\ call' = [fn |-> fn, args |-> args]
    /\ nCalls' = nCalls + 1
    /\ pre' = Entry
    /\ depth' = depth + d
    /\ run' = IF fn = "begin" /\ phost'.dl # <<>>
              THEN [base |-> Entry, ups |-> depth, downs |-> args[1]]
              ELSE IF fn = "end" /\ phost'.dl # <<>> THEN NoRun ELSE run
    /\ UNCHANGED <<co, nestOk, bypass>>

NextPrim ==
    \/ \E prim \in {1, 2, LINE_STRIP} :
          PrimStep("begin", <<prim>>, Call_begin(prim), 0)
    \/ PrimStep("end", <<>>, Call_end, 0)
    \/ PrimStep("colorA", <<0>>, Call_colorA(0), 0)
    \/ PrimStep("saveContext", <<>>, Call_saveContext, 1)
    \/ PrimStep("restoreContext", <<>>, Call_restoreContext, -1)

SpecPrim == Init /\ [][NextPrim]_vars

(***************************************************************************)
(* C20: saveContext and restoreContext leave the active primitive as it    *)
(* is; begin and end change no snapshot of the ring and not the index.     *)
(* So, with caching enabled, a primitive begun inside a saved context is   *)
(* still the active one after the matching restoreContext, and a begin of  *)
(* that same non-strip type is then suppressed.                            *)
(***************************************************************************)
C20_PrimitiveOutsideContext ==
    [][/\ call'.fn \in {"saveContext", "restoreContext"} =>
            phost'.DlPrimitive = phost.DlPrimitive
       /\ call'.fn \in {"begin", "end"} =>
            /\ phost'.DlState = phost.DlState
            /\ phost'.DlStateIndex = phost.DlStateIndex
       /\ (cfg.optimize /\ call'.fn = "restoreContext" /\ run'.ups > depth') =>
            phost'.DlPrimitive = run'.downs
       /\ (cfg.optimize /\ call.fn = "restoreContext" /\ run.ups > depth
              /\ call'.fn = "begin" /\ call'.args[1] \in {1, 2}
              /\ call'.args[1] = run.downs) =>
            /\ phost'.dl = <<>>
            /\ phost'.DlPrimitive = call'.args[1]]_vars

C20_Witness ==
    /\ cfg.optimize
    /\ call = [fn |-> "begin", args |-> <<2>>]
    /\ phost.dl = <<>>
    /\ phost.DlPrimitive = 2
    /\ depth = 0
    /\ run = [base |-> [ResetHost EXCEPT !.DlStateIndex = 1],
              ups |-> 1, downs |-> 2]
    /\ nCalls = 4

(***************************************************************************)
(* SpecStream: a client that begins primitives (type # 0) and ends them,   *)
(* interleaved with other operations, up to MaxStreamCalls calls in all.   *)
(* run reads the word stream written so far: run.ups is 1 if the latest    *)
(* BEGIN or END word in it is a BEGIN and 0 if it is an END or there is    *)
(* none, run.downs is the type of that BEGIN (0 otherwise), and run.base   *)
(* the host context on entry to the call that wrote that word.             *)
(***************************************************************************)
MaxStreamCalls == 4

RECURSIVE StreamRun(_, _, _)
StreamRun(r, h, ws) ==
    IF ws = <<>> THEN r
    ELSE LET w == Head(ws)
             next == CASE w.op = "BEGIN" ->
                            [base |-> h, ups |-> 1, downs |-> w.args[1]]
                       [] w.op = "END" ->
                            [base |-> h, ups |-> 0, downs |-> 0]
                       [] OTHER -> r
         IN StreamRun(next, h, Tail(ws))

StreamStep(fn, args, A) ==
    /\ nCalls < MaxStreamCalls
    /\ A
    /\ call' = [fn |-> fn, args |-> args]
    /\ nCalls' = nCalls + 1
    /\ pre' = Entry
    /\ run' = StreamRun(run, Entry, phost'.dl)
    /\ UNCHANGED <<co, depth, nestOk, bypass>>

NextStream ==
    \/ \E prim \in {1, 2, LINE_STRIP} :
          StreamStep("begin", <<prim>>, Call_begin(prim))
    \/ StreamStep("end", <<>>, Call_end)
    \/ StreamStep("colorA", <<0>>, Call_colorA(0))
    \/ StreamStep("vertex2f_2", <<100, 100>>, Call_vertex2f_2(100, 100))
    \/ StreamStep("saveContext", <<>>, Call_saveContext)
    \/ StreamStep("restoreContext", <<>>, Call_restoreContext)

SpecStream == Init /\ [][NextStream]_vars

(***************************************************************************)
(* C21: with caching and explicit END emission enabled, every END word     *)
(* written follows a BEGIN word with no other END in between (so no two    *)
(* END words come without a BEGIN between them), and at every point the    *)
(* active primitive is the type of the latest BEGIN written if no END was  *)
(* written after it, and NONE otherwise.                                   *)
(***************************************************************************)
HasEnd(ws) == \E i \in 1 .. Len(ws) : ws[i].op = "END"

C21_BeginEndWellFormed ==
    [][(cfg.optimize /\ cfg.endPrimitive) =>
          /\ HasEnd(phost'.dl) =>
                /\ run.ups = 1
                /\ phost'.dl = <<Word("END", <<>>)>>
          /\ phost'.DlPrimitive = run'.downs
          /\ run'.ups = (IF phost'.DlPrimitive # 0 THEN 1 ELSE 0)]_vars

C21_Witness ==
    /\ cfg.optimize
    /\ cfg.endPrimitive
    /\ call.fn = "end"
    /\ phost.dl = <<>>
    /\ run.ups = 0
    /\ run.base.DlPrimitive = LINE_STRIP
    /\ phost.DlStateIndex = 1
    /\ nCalls = 4

====
